---- MODULE Spec2Model ----
(***************************************************************************)
(* backfill_media_date.py: one run of the tool over a media directory,     *)
(* optionally followed by a second run on the directory the first left.    *)
(*                                                                         *)
(* Strings (file names, paths, rendered dates) are sequences of one-       *)
(* character strings, so that rsplit, lower, replace and endswith are      *)
(* computed as Python computes them.  The file system is a function from   *)
(* full paths to file records plus a set of directory paths.               *)
(***************************************************************************)
EXTENDS Integers, Sequences, FiniteSets, TLC

(***************************************************************************)
(* Bounds of the model.                                                    *)
(***************************************************************************)
\* Largest number of media entries in the target directory at the start.
MaxFiles == 2

(***************************************************************************)
(* String constants of the program.                                        *)
(***************************************************************************)
BACKUP_DIR_NAME == <<"b","a","c","k","u","p","_","o","r","i","g","i","n","a","l">>
EXIFTOOL_BACKUP_SUFFIX == <<"_","o","r","i","g","i","n","a","l">>
\* strftime patterns, as the separators they put between the fields:
\* "%Y:%m:%d %H:%M:%S" and "%Y-%m-%dT%H:%M:%S".
EXIF_TIME_FORMAT == [dsep |-> ":", mid |-> " ", tsep |-> ":"]
FFMPEG_TIME_FORMAT == [dsep |-> "-", mid |-> "T", tsep |-> ":"]

\* The literals "_immich." and "_bmp.png" of the handlers.
IMMICH_DOT == <<"_","i","m","m","i","c","h",".">>
BMP_PNG == <<"_","b","m","p",".","p","n","g">>
DOT == <<".">>
\* os.sep on the required platform (os.name == "nt").
SEP == "\\"

(***************************************************************************)
(* Python string operations.                                               *)
(***************************************************************************)
UpperChars == <<"A","B","C","D","E","F","G","H","I","J","K","L","M",
                "N","O","P","Q","R","S","T","U","V","W","X","Y","Z">>
LowerChars == <<"a","b","c","d","e","f","g","h","i","j","k","l","m",
                "n","o","p","q","r","s","t","u","v","w","x","y","z">>

\* str.lower() on one character.
LowerChar(c) ==
  IF \E k \in 1..26 : UpperChars[k] = c
    THEN LowerChars[CHOOSE k \in 1..26 : UpperChars[k] = c]
    ELSE c

\* str.lower()
Lower(s) == [k \in 1..Len(s) |-> LowerChar(s[k])]

\* Index of the last occurrence of character c in s, 0 when there is none.
LastIndexOf(s, c) ==
  IF \E k \in 1..Len(s) : s[k] = c
    THEN CHOOSE k \in 1..Len(s) : s[k] = c /\ \A j \in (k+1)..Len(s) : s[j] # c
    ELSE 0

\* s.rsplit('.', 1)[-1]: the text after the last dot, all of s without a dot.
RsplitLast(s) == SubSeq(s, LastIndexOf(s, ".") + 1, Len(s))

\* s.endswith(suf)
EndsWith(s, suf) ==
  /\ Len(suf) <= Len(s)
  /\ SubSeq(s, Len(s) - Len(suf) + 1, Len(s)) = suf

\* s.startswith(pre)
StartsWith(s, pre) ==
  /\ Len(pre) <= Len(s)
  /\ SubSeq(s, 1, Len(pre)) = pre

\* s.replace(old, new): every non-overlapping occurrence, left to right.
RECURSIVE Replace(_, _, _)
Replace(s, old, new) ==
  IF Len(old) = 0 \/ Len(s) < Len(old) THEN s
  ELSE IF StartsWith(s, old)
    THEN new \o Replace(SubSeq(s, Len(old) + 1, Len(s)), old, new)
    ELSE <<s[1]>> \o Replace(Tail(s), old, new)

(***************************************************************************)
(* os.path on Windows.                                                     *)
(***************************************************************************)
\* os.path.join(a, b) for a relative b.
Join(a, b) ==
  IF Len(a) = 0 \/ a[Len(a)] = SEP THEN a \o b ELSE a \o <<SEP>> \o b

\* os.path.basename(p)
Basename(p) == SubSeq(p, LastIndexOf(p, SEP) + 1, Len(p))

\* os.path.dirname(p)
Dirname(p) ==
  IF LastIndexOf(p, SEP) = 0 THEN <<>> ELSE SubSeq(p, 1, LastIndexOf(p, SEP) - 1)

(***************************************************************************)
(* datetime.fromtimestamp(t).strftime(fmt), local time taken as UTC.       *)
(***************************************************************************)
Digits == <<"0","1","2","3","4","5","6","7","8","9">>
Pad2(n) == <<Digits[((n \div 10) % 10) + 1], Digits[(n % 10) + 1]>>
Pad4(n) == Pad2(n \div 100) \o Pad2(n % 100)

\* The civil date [y, m, d] of a day number counted from 1970-01-01.
CivilFromDays(days) ==
  LET z   == days + 719468
      era == z \div 146097
      doe == z - era * 146097
      yoe == (doe - doe \div 1460 + doe \div 36524 - doe \div 146096) \div 365
      doy == doe - (365 * yoe + yoe \div 4 - yoe \div 100)
      mp  == (5 * doy + 2) \div 153
      d   == doy - (153 * mp + 2) \div 5 + 1
      m   == IF mp < 10 THEN mp + 3 ELSE mp - 9
      y   == yoe + era * 400 + (IF m <= 2 THEN 1 ELSE 0)
  IN  [y |-> y, m |-> m, d |-> d]

Strftime(t, fmt) ==
  LET c   == CivilFromDays(t \div 86400)
      sod == t % 86400
  IN  Pad4(c.y) \o <<fmt.dsep>> \o Pad2(c.m) \o <<fmt.dsep>> \o Pad2(c.d)
        \o <<fmt.mid>>
        \o Pad2(sod \div 3600) \o <<fmt.tsep>> \o Pad2((sod % 3600) \div 60)
        \o <<fmt.tsep>> \o Pad2(sod % 60)

(***************************************************************************)
(* Dispatch table of main (the match statement).                           *)
(***************************************************************************)
JPG_SUFFIXES == { <<"j","p","g">>, <<"j","p","e","g">> }
PNG_SUFFIXES == { <<"p","n","g">> }
GIF_SUFFIXES == { <<"g","i","f">> }
BMP_SUFFIXES == { <<"b","m","p">> }
MP4_SUFFIXES == { <<"m","p","4">>, <<"m","4","v">> }
FINE_SUFFIXES == { <<"m","o","v">>, <<"t","i","f">>, <<"h","e","i","c">>,
                   <<"w","e","b","p">> }

\* Handler with the default case turned into a pass-through.
HandlerSkipsUnknown(suffix) ==
  LET low == Lower(suffix)
  IN  IF low \in JPG_SUFFIXES THEN "jpg"
      ELSE IF low \in PNG_SUFFIXES THEN "png"
      ELSE IF low \in GIF_SUFFIXES THEN "gif"
      ELSE IF low \in BMP_SUFFIXES THEN "bmp"
      ELSE IF low \in MP4_SUFFIXES THEN "mp4"
      ELSE "fine"

\* The case of "match sfx.lower()" that a suffix selects.
Handler(suffix) ==
  LET low == Lower(suffix)
  IN  IF low \in JPG_SUFFIXES THEN "jpg"
      ELSE IF low \in PNG_SUFFIXES THEN "png"
      ELSE IF low \in GIF_SUFFIXES THEN "gif"
      ELSE IF low \in BMP_SUFFIXES THEN "bmp"
      ELSE IF low \in MP4_SUFFIXES THEN "mp4"
      ELSE IF low \in FINE_SUFFIXES THEN "fine"
      ELSE "unsupported"

\* new_media_path of process_bmp.
BmpNewPath(path, suffix) == Replace(path, DOT \o suffix, BMP_PNG)

\* new_media_path of process_gif and process_mp4.
ImmichNewPath(path, suffix) == Replace(path, DOT \o suffix, IMMICH_DOT \o suffix)

\* process_gif without its already-processed test.
GifNeverMarked(path, suffix) == FALSE

\* The already-processed test of process_gif.
GifIsMarked(path, suffix) == EndsWith(path, IMMICH_DOT \o suffix)

(***************************************************************************)
(* File records and metadata.  data names the payload: the path the        *)
(* payload was first seen under and the last operation that produced it.   *)
(* meta is the set of <<key, value>> metadata fields of the container.     *)
(***************************************************************************)
HasKey(meta, key) == \E kv \in meta : kv[1] = key
SetKey(meta, key, val) == {kv \in meta : kv[1] # key} \cup {<<key, val>>}

\* A piexif.load that never raises.
ExifLoadNeverFails(meta) == FALSE

\* piexif.load(img.info["exif"]) raises: the image carries no EXIF block.
ExifLoadFails(meta) == ~HasKey(meta, "Exif")

\* piexif.ExifIFD.DateTimeOriginal in exif_dict["Exif"]
JpgHasDate(meta) == HasKey(meta, "Exif") /\ HasKey(meta, "DateTimeOriginal")

\* "Creation Time" in img.info
PngHasDate(meta) == HasKey(meta, "Creation Time")

\* The creation_time tags of the streams of a video (a video and an audio
\* stream), as metadata keys.
MP4_STREAM_TAGS == {"stream0.creation_time", "stream1.creation_time"}

\* has_creation_time of process_mp4: every stream carries the tag.
Mp4HasCreationTime(meta) == \A key \in MP4_STREAM_TAGS : HasKey(meta, key)

\* The tags of a file ffmpeg wrote with -metadata creation_time=dt.
Mp4Metadata(dt) == { <<key, dt>> : key \in MP4_STREAM_TAGS }

\* process_png writing the "Creation Time" chunk alone.
PngMetadataCreationOnly(dt) == { <<"Creation Time", dt>> }

\* The text chunks process_png writes.
PngMetadata(dt) == { <<"Creation Time", dt>>, <<"Date Time Original", dt>> }

(***************************************************************************)
(* The file system.                                                        *)
(***************************************************************************)
Put(f, p, rec) == [q \in (DOMAIN f) \cup {p} |-> IF q = p THEN rec ELSE f[q]]
Del(f, p) == [q \in (DOMAIN f) \ {p} |-> f[q]]

\* A file written at path p at time t: a new file is created at t, an
\* existing one keeps its creation time.
Written(f, p, data, meta, t) ==
  [data |-> data, meta |-> meta,
   ctime |-> IF p \in DOMAIN f THEN f[p].ctime ELSE t, mtime |-> t]

\* os.path.exists
PathExists(f, ds, p) == p \in DOMAIN f \/ p \in ds

\* os.listdir, as a set of names.
Listdir(f, ds, d) ==
  { Basename(p) : p \in { q \in (DOMAIN f) \cup ds : Dirname(q) = d /\ q # d } }

\* The orders os.listdir may return the names in.
Orders(S) ==
  { s \in [1..Cardinality(S) -> S] :
      \A a, b \in 1..Cardinality(S) : a # b => s[a] # s[b] }

\* list.remove(x): the list without the first occurrence of x.
ListRemove(s, x) ==
  LET k == CHOOSE k \in 1..Len(s) : s[k] = x /\ \A j \in 1..(k-1) : s[j] # x
  IN  SubSeq(s, 1, k - 1) \o SubSeq(s, k + 1, Len(s))

\* main iterating over the whole listing.
MediaNamesAll(listing) == listing

\* main going through the names twice.
MediaNamesTwice(listing) ==
  LET names == ListRemove(listing, BACKUP_DIR_NAME) IN names \o names

\* The names main iterates over: the listing without the backup directory.
MediaNames(listing) == ListRemove(listing, BACKUP_DIR_NAME)

\* shutil.move(src, dst) into directory dst: the path the file lands on.
MoveTarget(src, dst) == Join(dst, Basename(src))

\* A move that replaces an existing destination instead of raising.
MoveFailsOnlyIfGone(f, ds, src, dst) == src \notin DOMAIN f

\* shutil.move raises: the source is gone or the destination exists.
MoveFails(f, ds, src, dst) ==
  \/ src \notin DOMAIN f
  \/ PathExists(f, ds, MoveTarget(src, dst))

\* The file system after a successful shutil.move.
Moved(f, src, dst) == Put(Del(f, src), MoveTarget(src, dst), f[src])

\* os.rename on Windows raises: the source is gone, the destination's
\* directory is missing, or another entry has the destination's name.
RenameFails(f, ds, src, dst) ==
  \/ src \notin DOMAIN f
  \/ Dirname(dst) \notin ds
  \/ (dst # src /\ PathExists(f, ds, dst))

\* The file system after a successful os.rename.
Renamed(f, src, dst) == IF dst = src THEN f ELSE Put(Del(f, src), dst, f[src])

\* Extensions Pillow knows a writer for (those the tool can meet).
PIL_EXTENSIONS == JPG_SUFFIXES \cup PNG_SUFFIXES \cup GIF_SUFFIXES
                    \cup BMP_SUFFIXES \cup { <<"t","i","f">>, <<"w","e","b","p">> }

\* Image.save(path) cannot start: no writer for the extension of path, or
\* the directory of path is missing.
SaveRefused(ds, path) ==
  \/ LastIndexOf(Basename(path), ".") <= 1
  \/ Lower(RsplitLast(Basename(path))) \notin PIL_EXTENSIONS
  \/ Dirname(path) \notin ds

(***************************************************************************)
(* State.                                                                  *)
(***************************************************************************)
VARIABLES
  real_run,         \* args.real_run
  media_dir,        \* args.media_dir
  verbosity,        \* args.verbosity
  fs,               \* path -> file record, the regular files
  dirs,             \* the directories
  now,              \* the clock
  run,              \* "first" or "second" run of the tool on the directory
  pc,               \* where the run is
  all_media_names,  \* the list main iterates over
  i,                \* index of media_name in all_media_names
  media_path, sfx, datetime_str, new_media_path,   \* locals of main and handlers
  log,              \* the lines logged in this run
  err,              \* the exception that ended the run, if any
  fs0, dirs0,       \* the file system at the start of this run
  prev,             \* the previous run: its mode and its log
  disp              \* the record of media_path when it was dispatched

vars == <<real_run, media_dir, verbosity, fs, dirs, now, run, pc, all_media_names, i,
          media_path, sfx, datetime_str, new_media_path, log, err,
          fs0, dirs0, prev, disp>>

backup_dir == Join(media_dir, BACKUP_DIR_NAME)
media_name == all_media_names[i]
NoErr == [kind |-> "none", what |-> <<>>]
NoFile == [data |-> [src |-> <<>>, form |-> "none"], meta |-> {},
           ctime |-> 0, mtime |-> 0]

\* One logger call.
Line(lvl, tag, a, b) ==
  [lvl |-> lvl, tag |-> tag, name |-> media_name, a |-> a, b |-> b]

\* The numeric value of a logging level.
LogLevel(lvl) ==
  IF lvl = "DEBUG" THEN 10 ELSE IF lvl = "INFO" THEN 20 ELSE 40

\* The log after the logger calls for lines: the logger, set to the level
\* of args.verbosity, emits the lines at that level or above.
Logged(l, lines) ==
  LET Emitted(line) == LogLevel(line.lvl) >= LogLevel(verbosity)
  IN  l \o SelectSeq(lines, Emitted)

\* get_earliest_date_str with the comparison turned around.
get_latest_date_str(path, time_format) ==
  LET date_c == fs[path].ctime
      date_m == fs[path].mtime
      date_approx == IF date_c > date_m THEN date_c ELSE date_m
  IN  Strftime(date_approx, time_format)

\* get_earliest_date_str
get_earliest_date_str(path, time_format) ==
  LET date_c == fs[path].ctime
      date_m == fs[path].mtime
      date_approx == IF date_c < date_m THEN date_c ELSE date_m
  IN  Strftime(date_approx, time_format)

(***************************************************************************)
(* Effects of the library calls and external tools the handlers use.       *)
(***************************************************************************)
\* img.save(media_path, exif=exif_bytes, ...) of process_jpg.
JpgSaved(f, path, dt, t) ==
  Put(f, path,
      Written(f, path, [src |-> f[path].data.src, form |-> "resave"],
              SetKey(SetKey(f[path].meta, "Exif", <<>>), "DateTimeOriginal", dt), t))

\* A save the encoder rejected after the file was opened for writing.
Truncated(f, path, t) ==
  Put(f, path, Written(f, path, [src |-> f[path].data.src, form |-> "empty"], {}, t))

\* img.save(media_path, pnginfo=metadata, ...) of process_png.
PngSaved(f, path, dt, t) ==
  Put(f, path,
      Written(f, path, [src |-> f[path].data.src, form |-> "resave"],
              PngMetadata(dt), t))

\* Image.open(media_path).save(new_media_path, ...) of process_bmp.
BmpConverted(f, path, new_path, t) ==
  Put(f, new_path,
      Written(f, new_path, [src |-> f[path].data.src, form |-> "png"], {}, t))

\* exiftool run with -overwrite_original: no copy of the original is kept.
ExiftoolOverwritesOriginal(f, path, dt, t) ==
  Put(f, path,
      [data |-> [src |-> f[path].data.src, form |-> "xmp"],
       meta |-> SetKey(f[path].meta, "XMP:DateTimeOriginal", dt),
       ctime |-> t, mtime |-> t])

\* exiftool -XMP:DateTimeOriginal=dt path: the original is kept beside the
\* file under the _original suffix and the file is rewritten.
ExiftoolWritten(f, path, dt, t) ==
  LET orig == path \o EXIFTOOL_BACKUP_SUFFIX
      kept == IF orig \in DOMAIN f THEN f ELSE Put(f, orig, f[path])
  IN  Put(kept, path,
          [data |-> [src |-> f[path].data.src, form |-> "xmp"],
           meta |-> SetKey(f[path].meta, "XMP:DateTimeOriginal", dt),
           ctime |-> t, mtime |-> t])

\* ffmpeg cannot start: output is the input, or its directory is missing.
RemuxRefused(f, ds, path, new_path) ==
  \/ path \notin DOMAIN f
  \/ new_path = path
  \/ Dirname(new_path) \notin ds

\* A run() that returns whatever ffmpeg's exit status is.
FfmpegNeverRaises(f, ds, path, new_path, outcome) == FALSE

\* run() raises ffmpeg.Error: ffmpeg exited with a non-zero status.
FfmpegRaises(f, ds, path, new_path, outcome) ==
  RemuxRefused(f, ds, path, new_path) \/ outcome # "ok"

\* ffmpeg ... -metadata creation_time=dt new_path, overwriting new_path.
Remuxed(f, path, new_path, dt, t) ==
  Put(f, new_path,
      Written(f, new_path, [src |-> f[path].data.src, form |-> "remux"],
              Mp4Metadata(dt), t))

\* An ffmpeg run that failed after it had opened its output.
RemuxPartial(f, path, new_path, t) ==
  Put(f, new_path,
      Written(f, new_path, [src |-> f[path].data.src, form |-> "partial"], {}, t))

(***************************************************************************)
(* Initial states: a target directory of at most MaxFiles media files      *)
(* drawn from Universe, with the backup directory absent, empty, or        *)
(* holding older files under the names this run would archive.             *)
(***************************************************************************)
\* A date some earlier tool embedded.
EmbeddedExif == Strftime(1234567890, EXIF_TIME_FORMAT)
EmbeddedFfmpeg == Strftime(1234567890, FFMPEG_TIME_FORMAT)

Universe == <<
  [name |-> <<"p",".","j","p","g">>, meta |-> {}],
  [name |-> <<"p",".","j","p","g">>, meta |-> { <<"Exif", <<>> >> }],
  [name |-> <<"p",".","j","p","g">>,
   meta |-> { <<"Exif", <<>> >>, <<"DateTimeOriginal", EmbeddedExif>> }],
  [name |-> <<"q",".","p","n","g">>, meta |-> {}],
  [name |-> <<"q",".","p","n","g">>, meta |-> { <<"Creation Time", EmbeddedExif>> }],
  [name |-> <<"p","h","o","t","o",".","b","m","p">>, meta |-> {}],
  [name |-> <<"p","h","o","t","o","_","b","m","p",".","p","n","g">>, meta |-> {}],
  [name |-> <<"c","l","i","p",".","g","i","f">>, meta |-> {}],
  [name |-> <<"c","l","i","p","_","i","m","m","i","c","h",".","g","i","f">>, meta |-> {}],
  [name |-> <<"v",".","m","p","4">>, meta |-> {}],
  [name |-> <<"v",".","m","p","4">>, meta |-> Mp4Metadata(EmbeddedFfmpeg)],
  [name |-> <<"v","_","i","m","m","i","c","h",".","m","p","4">>,
   meta |-> { <<"stream0.creation_time", EmbeddedFfmpeg>> }],
  [name |-> <<"m",".","m","o","v">>, meta |-> {}],
  [name |-> <<"w",".","M","4","V">>, meta |-> {}],
  [name |-> <<"n","o","t","e",".","t","x","t">>, meta |-> {}],
  [name |-> <<"g","i","f">>, meta |-> {}],
  [name |-> <<"a",".","g","i","f",".","g","i","f">>, meta |-> {}]
>>

\* Creation and modification time of the k-th file: distinct per file; the
\* creation time is the earlier one for odd k and the later one (a file
\* copied after it was last modified) for even k.
EarlyTime(k) == 951782399 + k * 40000000
LateTime(k) == EarlyTime(k) + 3600 * k + 1

InitialFile(k) ==
  [data |-> [src |-> Universe[k].name, form |-> "orig"],
   meta |-> Universe[k].meta,
   ctime |-> IF k % 2 = 1 THEN EarlyTime(k) ELSE LateTime(k),
   mtime |-> IF k % 2 = 1 THEN LateTime(k) ELSE EarlyTime(k)]

\* The directories the model draws from.
Directories ==
  { K \in SUBSET (1..Len(Universe)) :
      /\ Cardinality(K) <= MaxFiles
      /\ \A a, b \in K : a # b => Universe[a].name # Universe[b].name }

\* The name a file is archived under, if its handler archives it.
ArchiveNames(name) ==
  LET h == Handler(RsplitLast(name))
  IN  IF h \in {"bmp", "mp4"} THEN {name}
      ELSE IF h = "gif" THEN {name \o EXIFTOOL_BACKUP_SUFFIX}
      ELSE {}

OldFile == [data |-> [src |-> <<"o","l","d">>, form |-> "orig"], meta |-> {},
            ctime |-> 946684800, mtime |-> 946684800]

InitialFs(dir, K, backup) ==
  LET media == { Join(dir, Universe[k].name) : k \in K }
      idx(p) == CHOOSE k \in K : Join(dir, Universe[k].name) = p
      old == IF backup = "full"
               THEN { Join(Join(dir, BACKUP_DIR_NAME), n) :
                        n \in UNION { ArchiveNames(Universe[k].name) : k \in K } }
               ELSE {}
  IN  [p \in media \cup old |->
         IF p \in media THEN InitialFile(idx(p)) ELSE OldFile]

MediaDirs == { <<"d">> }

\* The choices of --verbosity.
VERBOSITY_CHOICES == {"DEBUG", "INFO", "ERROR"}

Init ==
  /\ real_run \in BOOLEAN
  /\ media_dir \in MediaDirs
  /\ verbosity \in VERBOSITY_CHOICES
  /\ \E K \in Directories, backup \in {"absent", "empty", "full"} :
       /\ fs = InitialFs(media_dir, K, backup)
       /\ dirs = {media_dir} \cup
                   (IF backup = "absent" THEN {} ELSE {Join(media_dir, BACKUP_DIR_NAME)})
  /\ now = 1777777777
  /\ run = "first"
  /\ pc = "start"
  /\ all_media_names = <<>>
  /\ i = 0
  /\ media_path = <<>>
  /\ sfx = <<>>
  /\ datetime_str = <<>>
  /\ new_media_path = <<>>
  /\ log = <<>>
  /\ err = NoErr
  /\ fs0 = fs
  /\ dirs0 = dirs
  /\ prev = [real |-> FALSE, log |-> <<>>]
  /\ disp = NoFile

(***************************************************************************)
(* Steps shared by the actions.                                            *)
(***************************************************************************)
runVars == <<real_run, media_dir, verbosity, now, run, fs0, dirs0, prev>>
locals == <<media_path, sfx, datetime_str, new_media_path, disp>>

\* The for loop moves on to the next name, or main returns.
NextEntry ==
  /\ i' = i + 1
  /\ pc' = IF i + 1 > Len(all_media_names) THEN "done" ELSE "loop"
  /\ err' = err

\* An exception no handler catches ends the run.
Raise(kind, what) ==
  /\ pc' = "fatal"
  /\ err' = [kind |-> kind, what |-> what]
  /\ i' = i

\* os.mkdir is called only for a missing backup directory.
MkdirNeeded(f, ds, d) == ~PathExists(f, ds, d)

(***************************************************************************)
(* main                                                                    *)
(***************************************************************************)
\* Lines 31-39: set the logger's level, log the arguments, create the
\* backup directory.
main_backup_dir ==
  /\ pc = "start"
  /\ LET args == [lvl |-> "DEBUG", tag |-> "args", name |-> <<>>,
                  a |-> media_dir,
                  b |-> IF real_run THEN <<"T","r","u","e">>
                        ELSE <<"F","a","l","s","e">>]
         mkdir == [lvl |-> "DEBUG", tag |-> "mkdir", name |-> <<>>,
                   a |-> backup_dir, b |-> <<>>]
     IN  IF MkdirNeeded(fs, dirs, backup_dir)
           THEN /\ log' = Logged(log, <<args, mkdir>>)
                /\ IF PathExists(fs, dirs, backup_dir)
                     THEN /\ pc' = "fatal"
                          /\ err' = [kind |-> "mkdir", what |-> backup_dir]
                          /\ dirs' = dirs
                     ELSE /\ dirs' = dirs \cup {backup_dir}
                          /\ pc' = "list"
                          /\ err' = err
           ELSE /\ log' = Logged(log, <<args>>)
                /\ pc' = "list"
                /\ UNCHANGED <<dirs, err>>
  /\ UNCHANGED <<fs, all_media_names, i, locals, runVars>>

\* Lines 42-43: list the directory, in any order, and drop the backup name.
main_listdir ==
  /\ pc = "list"
  /\ \E listing \in Orders(Listdir(fs, dirs, media_dir)) :
       /\ all_media_names' = MediaNames(listing)
       /\ i' = 1
       /\ pc' = IF Len(MediaNames(listing)) = 0 THEN "done" ELSE "loop"
  /\ UNCHANGED <<fs, dirs, log, err, locals, runVars>>

\* Lines 44-71: one turn of the loop up to the call of the handler.
main_dispatch ==
  /\ pc = "loop"
  /\ LET path == Join(media_dir, media_name)
         s == RsplitLast(media_name)
         h == Handler(s)
         processing == Line("DEBUG", "processing", media_name, <<>>)
     IN  /\ media_path' = path
         /\ sfx' = s
         /\ new_media_path' = <<>>
         /\ disp' = IF path \in DOMAIN fs THEN fs[path] ELSE NoFile
         /\ IF h \in {"jpg", "gif", "mp4"}
              THEN /\ pc' = h
                   /\ datetime_str' = <<>>
                   /\ log' = Logged(log, <<processing>>)
                   /\ UNCHANGED <<i, err>>
            ELSE IF h \in {"png", "bmp"}
              THEN IF path \in DOMAIN fs
                     THEN /\ pc' = h
                          /\ datetime_str' = get_earliest_date_str(path, EXIF_TIME_FORMAT)
                          /\ log' = Logged(log, <<processing>>)
                          /\ UNCHANGED <<i, err>>
                     ELSE /\ Raise("stat", path)
                          /\ datetime_str' = <<>>
                          /\ log' = Logged(log, <<processing>>)
            ELSE IF h = "fine"
              THEN /\ NextEntry
                   /\ datetime_str' = <<>>
                   /\ log' = Logged(log, <<processing, Line("DEBUG", "fine", s, media_name)>>)
            ELSE /\ Raise("unsupported", s)
                 /\ datetime_str' = <<>>
                 /\ log' = Logged(log, <<processing>>)
  /\ UNCHANGED <<fs, dirs, all_media_names, runVars>>

(***************************************************************************)
(* process_jpg                                                             *)
(***************************************************************************)
\* Lines 81-102: detection, the date, the log line.
process_jpg ==
  /\ pc = "jpg"
  /\ IF media_path \notin DOMAIN fs
       THEN /\ Raise("open", media_path)
            /\ UNCHANGED <<log, datetime_str>>
       ELSE LET meta == fs[media_path].meta
                exif == IF ExifLoadFails(meta) THEN {} ELSE meta
                noexif == IF ExifLoadFails(meta)
                            THEN <<Line("INFO", "no_exif", media_path, <<>>)>>
                            ELSE <<>>
                dt == get_earliest_date_str(media_path, EXIF_TIME_FORMAT)
            IN  IF JpgHasDate(exif)
                  THEN /\ log' = Logged(log, noexif
                                   \o <<Line("DEBUG", "present_jpg", media_path, <<>>)>>)
                       /\ NextEntry
                       /\ UNCHANGED datetime_str
                  ELSE /\ datetime_str' = dt
                       /\ log' = Logged(log, noexif
                                   \o <<Line("INFO", "assign_jpg", media_path, dt)>>)
                       /\ IF real_run
                            THEN pc' = "jpg_save" /\ UNCHANGED <<i, err>>
                            ELSE NextEntry
  /\ UNCHANGED <<fs, dirs, all_media_names, media_path, sfx, new_media_path, disp, runVars>>

\* Lines 103-106: the save that keeps the quality; a ValueError is logged.
process_jpg_save ==
  /\ pc = "jpg_save"
  /\ \E accepted \in BOOLEAN :
       IF accepted /\ ~SaveRefused(dirs, media_path)
         THEN /\ fs' = JpgSaved(fs, media_path, datetime_str, now)
              /\ NextEntry
              /\ log' = log
         ELSE /\ fs' = IF SaveRefused(dirs, media_path) THEN fs
                       ELSE Truncated(fs, media_path, now)
              /\ log' = Logged(log, <<Line("ERROR", "error", media_path, <<>>)>>)
              /\ pc' = "jpg_retry"
              /\ UNCHANGED <<i, err>>
  /\ UNCHANGED <<dirs, all_media_names, locals, runVars>>

\* Lines 107-108: the operator acknowledges, the save with quality 95.
process_jpg_retry ==
  /\ pc = "jpg_retry"
  /\ \E accepted \in BOOLEAN :
       IF accepted /\ ~SaveRefused(dirs, media_path)
         THEN /\ fs' = JpgSaved(fs, media_path, datetime_str, now)
              /\ NextEntry
         ELSE /\ fs' = fs
              /\ Raise("save", media_path)
  /\ UNCHANGED <<dirs, all_media_names, log, locals, runVars>>

(***************************************************************************)
(* process_png (called by main, and by process_bmp on the converted file)  *)
(***************************************************************************)
\* Lines 117-130.
process_png ==
  /\ pc = "png"
  /\ IF media_path \notin DOMAIN fs
       THEN /\ Raise("open", media_path)
            /\ UNCHANGED <<fs, log>>
     ELSE IF PngHasDate(fs[media_path].meta)
       THEN /\ log' = Logged(log, <<Line("DEBUG", "present_png", media_path, <<>>)>>)
            /\ NextEntry
            /\ fs' = fs
     ELSE /\ log' = Logged(log, <<Line("INFO", "assign_png", media_path, datetime_str)>>)
          /\ IF ~real_run
               THEN NextEntry /\ fs' = fs
             ELSE IF SaveRefused(dirs, media_path)
               THEN Raise("save", media_path) /\ fs' = fs
             ELSE /\ fs' = PngSaved(fs, media_path, datetime_str, now)
                  /\ NextEntry
  /\ UNCHANGED <<dirs, all_media_names, locals, runVars>>

(***************************************************************************)
(* process_bmp                                                             *)
(***************************************************************************)
\* Lines 138-140: the new path and the log line.
process_bmp ==
  /\ pc = "bmp"
  /\ new_media_path' = BmpNewPath(media_path, sfx)
  /\ log' = Logged(log, <<Line("INFO", "convert_bmp", media_path,
                             BmpNewPath(media_path, sfx))>>)
  /\ IF real_run THEN pc' = "bmp_save" /\ UNCHANGED <<i, err>> ELSE NextEntry
  /\ UNCHANGED <<fs, dirs, all_media_names, media_path, sfx, datetime_str, disp, runVars>>

\* Line 141: write the PNG.
process_bmp_save ==
  /\ pc = "bmp_save"
  /\ IF media_path \notin DOMAIN fs \/ SaveRefused(dirs, new_media_path)
       THEN Raise("save", new_media_path) /\ fs' = fs
       ELSE /\ fs' = BmpConverted(fs, media_path, new_media_path, now)
            /\ pc' = "bmp_move"
            /\ UNCHANGED <<i, err>>
  /\ UNCHANGED <<dirs, all_media_names, log, locals, runVars>>

\* Lines 142-143: archive the original, then call process_png on the new file.
process_bmp_move ==
  /\ pc = "bmp_move"
  /\ IF MoveFails(fs, dirs, media_path, backup_dir)
       THEN /\ Raise("exists", MoveTarget(media_path, backup_dir))
            /\ UNCHANGED <<fs, media_path>>
       ELSE /\ fs' = Moved(fs, media_path, backup_dir)
            /\ media_path' = new_media_path
            /\ pc' = "png"
            /\ UNCHANGED <<i, err>>
  /\ UNCHANGED <<dirs, all_media_names, log, sfx, datetime_str, new_media_path, disp, runVars>>

(***************************************************************************)
(* process_gif                                                             *)
(***************************************************************************)
\* Lines 150-157: the marker test, the date, the new path, the log line.
process_gif ==
  /\ pc = "gif"
  /\ IF GifIsMarked(media_path, sfx)
       THEN /\ log' = Logged(log, <<Line("INFO", "skip_gif", media_path, <<>>)>>)
            /\ NextEntry
            /\ UNCHANGED <<datetime_str, new_media_path>>
     ELSE IF media_path \notin DOMAIN fs
       THEN /\ Raise("stat", media_path)
            /\ UNCHANGED <<log, datetime_str, new_media_path>>
     ELSE /\ datetime_str' = get_earliest_date_str(media_path, EXIF_TIME_FORMAT)
          /\ new_media_path' = ImmichNewPath(media_path, sfx)
          /\ log' = Logged(log, <<Line("INFO", "assign_gif",
                                     ImmichNewPath(media_path, sfx),
                                     get_earliest_date_str(media_path, EXIF_TIME_FORMAT))>>)
          /\ IF real_run THEN pc' = "gif_exif" /\ UNCHANGED <<i, err>> ELSE NextEntry
  /\ UNCHANGED <<fs, dirs, all_media_names, media_path, sfx, disp, runVars>>

\* Line 158 and lines 206-214: run exiftool; a non-zero exit raises.
set_xmp_exiftool ==
  /\ pc = "gif_exif"
  /\ \E ok \in BOOLEAN :
       IF ok
         THEN /\ fs' = ExiftoolWritten(fs, media_path, datetime_str, now)
              /\ pc' = "gif_rename"
              /\ UNCHANGED <<i, err>>
         ELSE /\ fs' = fs
              /\ Raise("exiftool", media_path)
  /\ UNCHANGED <<dirs, all_media_names, log, locals, runVars>>

\* Line 159: rename the file to its marked name.
process_gif_rename ==
  /\ pc = "gif_rename"
  /\ IF RenameFails(fs, dirs, media_path, new_media_path)
       THEN Raise("exists", new_media_path) /\ fs' = fs
       ELSE /\ fs' = Renamed(fs, media_path, new_media_path)
            /\ pc' = "gif_move"
            /\ UNCHANGED <<i, err>>
  /\ UNCHANGED <<dirs, all_media_names, log, locals, runVars>>

\* Line 160: archive the copy exiftool kept.
process_gif_move ==
  /\ pc = "gif_move"
  /\ IF MoveFails(fs, dirs, media_path \o EXIFTOOL_BACKUP_SUFFIX, backup_dir)
       THEN /\ Raise("exists", MoveTarget(media_path \o EXIFTOOL_BACKUP_SUFFIX, backup_dir))
            /\ fs' = fs
       ELSE /\ fs' = Moved(fs, media_path \o EXIFTOOL_BACKUP_SUFFIX, backup_dir)
            /\ NextEntry
  /\ UNCHANGED <<dirs, all_media_names, log, locals, runVars>>

(***************************************************************************)
(* process_mp4                                                             *)
(***************************************************************************)
\* Lines 170-183: probe, and when a stream lacks the tag: path, date, log line.
process_mp4 ==
  /\ pc = "mp4"
  /\ IF media_path \notin DOMAIN fs
       THEN /\ Raise("probe", media_path)
            /\ UNCHANGED <<log, datetime_str, new_media_path>>
     ELSE IF Mp4HasCreationTime(fs[media_path].meta)
       THEN /\ NextEntry
            /\ UNCHANGED <<log, datetime_str, new_media_path>>
     ELSE /\ new_media_path' = ImmichNewPath(media_path, sfx)
          /\ datetime_str' = get_earliest_date_str(media_path, FFMPEG_TIME_FORMAT)
          /\ log' = Logged(log, <<Line("INFO", "assign_mp4",
                                     ImmichNewPath(media_path, sfx),
                                     get_earliest_date_str(media_path, FFMPEG_TIME_FORMAT))>>)
          /\ IF real_run THEN pc' = "mp4_run" /\ UNCHANGED <<i, err>> ELSE NextEntry
  /\ UNCHANGED <<fs, dirs, all_media_names, media_path, sfx, disp, runVars>>

\* Lines 184-192: the re-mux; ffmpeg may fail, before or after opening its output.
process_mp4_run ==
  /\ pc = "mp4_run"
  /\ \E outcome \in {"ok", "failed", "partial"} :
       /\ fs' = IF RemuxRefused(fs, dirs, media_path, new_media_path)
                     \/ outcome = "failed"
                  THEN fs
                ELSE IF outcome = "partial"
                  THEN RemuxPartial(fs, media_path, new_media_path, now)
                ELSE Remuxed(fs, media_path, new_media_path, datetime_str, now)
       /\ IF FfmpegRaises(fs, dirs, media_path, new_media_path, outcome)
            THEN Raise("ffmpeg", new_media_path)
            ELSE pc' = "mp4_move" /\ UNCHANGED <<i, err>>
  /\ UNCHANGED <<dirs, all_media_names, log, locals, runVars>>

\* Line 193: archive the original.
process_mp4_move ==
  /\ pc = "mp4_move"
  /\ IF MoveFails(fs, dirs, media_path, backup_dir)
       THEN /\ Raise("exists", MoveTarget(media_path, backup_dir))
            /\ fs' = fs
       ELSE /\ fs' = Moved(fs, media_path, backup_dir)
            /\ NextEntry
  /\ UNCHANGED <<dirs, all_media_names, log, locals, runVars>>

(***************************************************************************)
(* The operator runs the tool again, in real-run mode, on the directory a  *)
(* completed run left (a dry run followed by the real run, or a real run   *)
(* repeated).                                                              *)
(***************************************************************************)
Rerun ==
  /\ pc = "done"
  /\ run = "first"
  /\ run' = "second"
  /\ real_run' = TRUE
  /\ prev' = [real |-> real_run, log |-> log]
  /\ fs0' = fs
  /\ dirs0' = dirs
  /\ now' = now + 86400
  /\ pc' = "start"
  /\ all_media_names' = <<>>
  /\ i' = 0
  /\ media_path' = <<>>
  /\ sfx' = <<>>
  /\ datetime_str' = <<>>
  /\ new_media_path' = <<>>
  /\ log' = <<>>
  /\ disp' = NoFile
  /\ UNCHANGED <<media_dir, verbosity, fs, dirs, err>>

Next ==
  \/ main_backup_dir
  \/ main_listdir
  \/ main_dispatch
  \/ process_jpg
  \/ process_jpg_save
  \/ process_jpg_retry
  \/ process_png
  \/ process_bmp
  \/ process_bmp_save
  \/ process_bmp_move
  \/ process_gif
  \/ set_xmp_exiftool
  \/ process_gif_rename
  \/ process_gif_move
  \/ process_mp4
  \/ process_mp4_run
  \/ process_mp4_move
  \/ Rerun

Spec == Init /\ [][Next]_vars

(***************************************************************************)
(* What the claims speak of.                                               *)
(***************************************************************************)
\* The lines that record a decision about a file: skip, assign, convert.
DecisionTags == {"present_jpg", "assign_jpg", "present_png", "assign_png",
                 "convert_bmp", "skip_gif", "assign_gif", "assign_mp4"}

\* The decision lines a log holds for the entry called name.
DecisionLines(l, name) ==
  LET Decides(line) == line.name = name /\ line.tag \in DecisionTags
  IN  SelectSeq(l, Decides)

\* The file system is as it was when the current run started.
Untouched == fs = fs0 /\ dirs = dirs0

\* C1: in a dry run the file system never differs from the initial one: no
\* entry (file or directory) is created, moved, rewritten or removed.
C1_DryRunNeverMutates ==
  (run = "first" /\ ~real_run) => Untouched

\* C2: the decision lines of an entry processed in a real run equal those of
\* the same entry, in the same state, processed in a dry run.  The real run
\* follows the dry run on the same directory and the entry is the first of
\* the real run, so that it is met in the state the dry run met it in.
C2_SameDecisionLines ==
  (/\ run = "second" /\ ~prev.real
   /\ Len(all_media_names) > 0
   /\ (i > 1 \/ pc = "done"))
    => DecisionLines(log, all_media_names[1])
         = DecisionLines(prev.log, all_media_names[1])

\* C3: a real run that follows a completed real run changes nothing.
C3_SecondRealRunNoMutation ==
  (run = "second" /\ prev.real) => Untouched

\* Names the claims use.
PHOTO_BMP == <<"p","h","o","t","o",".","b","m","p">>
PHOTO_BMP_PNG == <<"p","h","o","t","o","_","b","m","p",".","p","n","g">>
CLIP_GIF == <<"c","l","i","p",".","g","i","f">>
CLIP_IMMICH_GIF == <<"c","l","i","p","_","i","m","m","i","c","h",".","g","i","f">>

InMedia(name) == Join(media_dir, name)
InBackup(name) == Join(backup_dir, name)

\* The entries of the target directory itself.
MediaFiles(f) == { p \in DOMAIN f : Dirname(p) = media_dir }

\* The earlier of two times.
Earlier(a, b) == IF a <= b THEN a ELSE b

\* After a fatal error nothing happens any more.
FatalIsFinal ==
  pc = "fatal" => /\ pc' = "fatal"
                  /\ UNCHANGED <<fs, dirs, log, i, err>>

\* The extensions main has a handler for, and those it passes over.
C4_HandledExtensions ==
  { <<"j","p","g">>, <<"j","p","e","g">>, <<"p","n","g">>, <<"g","i","f">>,
    <<"b","m","p">>, <<"m","p","4">>, <<"m","4","v">> }
C4_PassThroughExtensions ==
  { <<"m","o","v">>, <<"t","i","f">>, <<"h","e","i","c">>, <<"w","e","b","p">> }
\* C4: a name whose lowercased extension is neither handled nor passed
\* through aborts the run, in either mode, with an error naming the
\* extension; the file system is left as it is and no later entry is reached.
C4_UnsupportedAborts ==
  [][ /\ (pc = "loop"
           /\ Lower(RsplitLast(media_name))
                \notin C4_HandledExtensions \cup C4_PassThroughExtensions)
         => /\ pc' = "fatal"
            /\ err' = [kind |-> "unsupported", what |-> RsplitLast(media_name)]
            /\ UNCHANGED <<fs, dirs, i>>
      /\ FatalIsFinal ]_vars

\* A dry run stopped at note.txt with an entry still waiting behind it.
C4_Witness ==
  /\ ~real_run
  /\ pc = "fatal"
  /\ err = [kind |-> "unsupported", what |-> <<"t","x","t">>]
  /\ i < Len(all_media_names)

\* The file src is about to be archived and its name is taken.
C6_Archiving(src) ==
  /\ src \in DOMAIN fs
  /\ InBackup(Basename(src)) \in DOMAIN fs
\* C6: a move into the backup directory onto an existing name fails: the
\* file system, the existing backup entry included, stays as it is, and the
\* run ends there.
C6_BackupCollisionAborts ==
  [][ /\ ( \/ (pc \in {"bmp_move", "mp4_move"} /\ C6_Archiving(media_path))
           \/ (pc = "gif_move"
                 /\ C6_Archiving(media_path \o EXIFTOOL_BACKUP_SUFFIX)) )
         => /\ pc' = "fatal"
            /\ err'.kind = "exists"
            /\ UNCHANGED <<fs, dirs, i>>
      /\ FatalIsFinal ]_vars

\* A run stopped by a collision in the backup directory, the older backup
\* entry in place, an entry still waiting.
C6_Witness ==
  /\ pc = "fatal"
  /\ err.kind = "exists"
  /\ Dirname(err.what) = backup_dir
  /\ err.what \in DOMAIN fs /\ fs[err.what] = OldFile
  /\ i < Len(all_media_names)

\* A real run on a directory holding only photo.bmp has ended.
C7_Scenario ==
  /\ run = "first" /\ real_run
  /\ DOMAIN fs0 = {InMedia(PHOTO_BMP)}
  /\ pc \in {"done", "fatal"}
\* C7: a real run on a directory holding only photo.bmp (backup directory
\* empty or absent) completes, and leaves photo_bmp.png, carrying both text
\* fields with the date of photo.bmp, as the only file of the working
\* directory, and photo.bmp in the backup directory.
C7_BmpConversion ==
  C7_Scenario =>
    LET src == fs0[InMedia(PHOTO_BMP)]
        date == Strftime(Earlier(src.ctime, src.mtime), EXIF_TIME_FORMAT)
    IN  /\ pc = "done"
        /\ DOMAIN fs = {InMedia(PHOTO_BMP_PNG), InBackup(PHOTO_BMP)}
        /\ Listdir(fs, dirs, media_dir) = {PHOTO_BMP_PNG, BACKUP_DIR_NAME}
        /\ fs[InMedia(PHOTO_BMP_PNG)].meta =
             { <<"Creation Time", date>>, <<"Date Time Original", date>> }
        /\ fs[InMedia(PHOTO_BMP_PNG)].data.src = PHOTO_BMP
        /\ fs[InBackup(PHOTO_BMP)] = src
C7_Witness == C7_Scenario /\ InMedia(PHOTO_BMP_PNG) \in DOMAIN fs

\* C8: a completed real run on a directory with clip.gif leaves
\* clip_immich.gif carrying XMP DateTimeOriginal, the original content in the
\* backup directory, and neither clip.gif nor exiftool's copy in the working
\* directory; a real run after it leaves clip_immich.gif as it is.
C8_GifProcessing ==
  /\ (run = "first" /\ real_run /\ pc = "done" /\ InMedia(CLIP_GIF) \in DOMAIN fs0)
       => /\ InMedia(CLIP_IMMICH_GIF) \in DOMAIN fs
          /\ HasKey(fs[InMedia(CLIP_IMMICH_GIF)].meta, "XMP:DateTimeOriginal")
          /\ fs[InMedia(CLIP_IMMICH_GIF)].data.src = CLIP_GIF
          /\ InBackup(CLIP_GIF \o EXIFTOOL_BACKUP_SUFFIX) \in DOMAIN fs
          /\ fs[InBackup(CLIP_GIF \o EXIFTOOL_BACKUP_SUFFIX)] = fs0[InMedia(CLIP_GIF)]
          /\ InMedia(CLIP_GIF) \notin DOMAIN fs
          /\ InMedia(CLIP_GIF \o EXIFTOOL_BACKUP_SUFFIX) \notin DOMAIN fs
  /\ (run = "second" /\ prev.real /\ InMedia(CLIP_IMMICH_GIF) \in DOMAIN fs0)
       => /\ InMedia(CLIP_IMMICH_GIF) \in DOMAIN fs
          /\ fs[InMedia(CLIP_IMMICH_GIF)] = fs0[InMedia(CLIP_IMMICH_GIF)]

\* The second real run has passed over the clip_immich.gif the first made.
C8_Witness ==
  /\ run = "second" /\ prev.real /\ pc = "done"
  /\ InMedia(CLIP_IMMICH_GIF) \in DOMAIN fs
  /\ fs[InMedia(CLIP_IMMICH_GIF)].data = [src |-> CLIP_GIF, form |-> "xmp"]
  /\ InBackup(CLIP_GIF \o EXIFTOOL_BACKUP_SUFFIX) \in DOMAIN fs
  /\ \E k \in 1..Len(log) : log[k].tag = "skip_gif"

\* The formats whose handlers replace the file, and the places a file or
\* a copy of it may be found at.
C5_DestructiveExtensions ==
  { <<"b","m","p">>, <<"g","i","f">>, <<"m","p","4">>, <<"m","4","v">> }
C5_MarkedName(name) ==
  LET k == LastIndexOf(name, ".")
  IN  IF k = 0 THEN name
      ELSE SubSeq(name, 1, k - 1) \o <<"_","i","m","m","i","c","h">>
             \o SubSeq(name, k, Len(name))
C5_Places(p) ==
  { p, InMedia(C5_MarkedName(Basename(p))),
    ImmichNewPath(p, RsplitLast(Basename(p))), InBackup(Basename(p)) }
C5_CopyPlaces(p) ==
  C5_Places(p) \cup { p \o EXIFTOOL_BACKUP_SUFFIX,
                      InBackup(Basename(p) \o EXIFTOOL_BACKUP_SUFFIX) }
C5_SameContent(r1, r2) == r1.data = r2.data /\ r1.meta = r2.meta
\* C5: in a real run every file the target directory held at the start of
\* the run is still at its path, or under its marked name, or under its base
\* name in the backup directory; and of every BMP, GIF, MP4 or M4V file a
\* copy with the original content is at one of these places.  The copy
\* exiftool keeps of a GIF (<name>_original, in the working directory and
\* then in the backup directory) counts as its backup, and the name the
\* handler derives counts as the marked name.
C5_NeverDeleted ==
  (real_run \/ run = "second") =>
    \A p \in MediaFiles(fs0) :
      /\ C5_Places(p) \cap DOMAIN fs # {}
      /\ Lower(RsplitLast(Basename(p))) \in C5_DestructiveExtensions
           => \E q \in C5_CopyPlaces(p) \cap DOMAIN fs : C5_SameContent(fs[q], fs0[p])

\* The log lines and metadata fields that carry a date; the two patterns.
C9_DatedTags == {"assign_jpg", "assign_png", "assign_gif", "assign_mp4"}
C9_VideoKeys == {"stream0.creation_time", "stream1.creation_time"}
C9_DateKeys == {"DateTimeOriginal", "Creation Time", "Date Time Original",
                "XMP:DateTimeOriginal"} \cup C9_VideoKeys
C9_ImagePattern(s) ==
  /\ Len(s) = 19
  /\ s[5] = ":" /\ s[8] = ":" /\ s[11] = " " /\ s[14] = ":" /\ s[17] = ":"
C9_VideoPattern(s) ==
  /\ Len(s) = 19
  /\ s[5] = "-" /\ s[8] = "-" /\ s[11] = "T" /\ s[14] = ":" /\ s[17] = ":"
C9_Right(date, source, video) ==
  /\ date = Strftime(Earlier(source.ctime, source.mtime),
                     IF video THEN FFMPEG_TIME_FORMAT ELSE EXIF_TIME_FORMAT)
  /\ IF video THEN C9_VideoPattern(date) ELSE C9_ImagePattern(date)
C9_LoggedDates ==
  \A k \in 1..Len(log) :
    log[k].tag \in C9_DatedTags =>
      /\ InMedia(log[k].name) \in DOMAIN fs0
      /\ C9_Right(log[k].b, fs0[InMedia(log[k].name)], log[k].tag = "assign_mp4")
C9_WrittenDates ==
  \A p \in {media_path, new_media_path} \cap DOMAIN fs :
    fs[p].data.src = disp.data.src =>
      \A kv \in fs[p].meta \ disp.meta :
        kv[1] \in C9_DateKeys => C9_Right(kv[2], disp, kv[1] \in C9_VideoKeys)
\* C9: every date the tool logs or writes is the earlier of the creation and
\* the modification time the source file had before the tool touched it (for
\* a BMP: the times of the .bmp), in the image pattern for JPEG, PNG, BMP and
\* GIF and in the video pattern for MP4/M4V.
C9_EarliestDate == C9_LoggedDates /\ C9_WrittenDates

\* photo.bmp, modified before it was created here, has been converted: the
\* PNG carries the modification time of the .bmp, and is itself newer.
C9_Witness ==
  /\ real_run /\ pc = "done"
  /\ InMedia(PHOTO_BMP) \in DOMAIN fs0
  /\ fs0[InMedia(PHOTO_BMP)].mtime < fs0[InMedia(PHOTO_BMP)].ctime
  /\ InMedia(PHOTO_BMP_PNG) \in DOMAIN fs
  /\ <<"Creation Time",
       Strftime(fs0[InMedia(PHOTO_BMP)].mtime, EXIF_TIME_FORMAT)>>
        \in fs[InMedia(PHOTO_BMP_PNG)].meta
  /\ fs[InMedia(PHOTO_BMP_PNG)].mtime > fs0[InMedia(PHOTO_BMP)].ctime
  /\ \E k \in 1..Len(log) : log[k].tag = "assign_mp4"

\* The lines of a log that report the creation of the backup directory.
C10_MkdirLines(l) == { k \in 1..Len(l) : l[k].tag = "mkdir" }
\* C10: the backup directory is created when it is absent, once (in the
\* first step of the run, reported by one line at verbosity DEBUG), and
\* never at an error; it exists from then on; neither it nor a path inside it is
\* ever among the names main iterates over or the path given to a handler;
\* and a file in the backup directory is never changed or removed.
C10_BackupDirectory ==
  []( /\ err.kind # "mkdir"
      /\ pc # "start" => backup_dir \in dirs
      /\ media_path # <<>> => Dirname(media_path) = media_dir )
  /\ [][ /\ dirs' # dirs
            => (pc = "start" /\ backup_dir \notin dirs
                  /\ dirs' = dirs \cup {backup_dir})
         /\ pc = "start"
            => Cardinality(C10_MkdirLines(log')) =
                 (IF backup_dir \notin dirs /\ verbosity = "DEBUG" THEN 1 ELSE 0)
         /\ (pc # "start" /\ pc' # "start")
            => C10_MkdirLines(log') = C10_MkdirLines(log)
         /\ pc = "list"
            => \A k \in 1..Len(all_media_names') :
                 /\ all_media_names'[k] # BACKUP_DIR_NAME
                 /\ Dirname(InMedia(all_media_names'[k])) = media_dir
         /\ fs' # fs
            => \A p \in DOMAIN fs :
                 Dirname(p) = backup_dir => p \in DOMAIN fs' /\ fs'[p] = fs[p] ]_vars

\* The first run made the backup directory and moved photo.bmp into it; the
\* second run has gone through without making it again.
C10_Witness ==
  /\ run = "second" /\ pc = "done"
  /\ C10_MkdirLines(prev.log) # {} /\ C10_MkdirLines(log) = {}
  /\ InBackup(PHOTO_BMP) \in DOMAIN fs
  /\ fs[InBackup(PHOTO_BMP)].data = [src |-> PHOTO_BMP, form |-> "orig"]

\* A name that carries a processed marker: _immich before the extension of a
\* GIF, MP4 or M4V, or _bmp before .png.
MarkedName(name) ==
  LET k == LastIndexOf(name, ".")
      stem == SubSeq(name, 1, k - 1)
      ext == Lower(RsplitLast(name))
  IN  /\ k > 0
      /\ \/ /\ ext \in GIF_SUFFIXES \cup MP4_SUFFIXES
            /\ EndsWith(stem, <<"_","i","m","m","i","c","h">>)
         \/ /\ ext \in PNG_SUFFIXES
            /\ EndsWith(stem, <<"_","b","m","p">>)

\* The run is at the entry media_name, between its dispatch and its end.
AtEntry ==
  /\ pc \notin {"start", "list", "done", "fatal"}
  /\ i \in 1..Len(all_media_names)

\* C11: while a real run is at an entry whose name carries a processed
\* marker, no step changes the file system: the file is not rewritten,
\* renamed, re-muxed or backed up.
C11_MarkedIsSkipped ==
  [][ (real_run /\ AtEntry /\ MarkedName(media_name))
        => (fs' = fs /\ dirs' = dirs) ]_vars

\* The files of the backup directory.
BackupFiles(f) == { p \in DOMAIN f : Dirname(p) = backup_dir }

\* The re-mux of media_path into new_media_path is complete.
C12_RemuxComplete(f) ==
  /\ new_media_path \in DOMAIN f
  /\ f[new_media_path].data = [src |-> disp.data.src, form |-> "remux"]
  /\ Mp4HasCreationTime(f[new_media_path].meta)

\* C12: in the MP4/M4V handler a step of the re-mux that does not leave the
\* complete <name>_immich file ends the run with the original at its path
\* and the backup directory as it was; the original goes into the backup
\* directory only in the step after a completed re-mux, with the complete
\* file in place; and a run that was aborted does nothing more.
C12_BackupAfterRemux ==
  [][ /\ (pc = "mp4_run" /\ ~C12_RemuxComplete(fs'))
         => /\ pc' = "fatal" /\ err'.kind = "ffmpeg"
            /\ media_path \in DOMAIN fs' /\ fs'[media_path] = fs[media_path]
            /\ BackupFiles(fs') = BackupFiles(fs)
      /\ (pc \in {"mp4", "mp4_run", "mp4_move"} /\ BackupFiles(fs') # BackupFiles(fs))
         => /\ pc = "mp4_move"
            /\ C12_RemuxComplete(fs)
            /\ BackupFiles(fs') = BackupFiles(fs) \cup {InBackup(media_name)}
            /\ fs'[InBackup(media_name)] = fs[media_path]
            /\ media_path \notin DOMAIN fs'
      /\ FatalIsFinal ]_vars

\* A re-mux that failed after it had opened its output has ended the run:
\* the original is in place and the backup directory holds nothing of it.
C12_Witness ==
  /\ pc = "fatal" /\ err.kind = "ffmpeg"
  /\ media_path \in DOMAIN fs /\ fs[media_path] = disp
  /\ new_media_path \in DOMAIN fs /\ fs[new_media_path].data.form = "partial"
  /\ InBackup(media_name) \notin DOMAIN fs

\* The copy exiftool keeps beside media_path.
ExiftoolCopy == media_path \o EXIFTOOL_BACKUP_SUFFIX

\* Steps of process_gif that change the file system: the rename of the
\* file to its marked name and the move of exiftool's copy.
C13_RenameStep == pc = "gif_rename" /\ fs' # fs
C13_MoveStep ==
  /\ pc = "gif_move"
  /\ InBackup(Basename(ExiftoolCopy)) \in DOMAIN fs' \ DOMAIN fs

\* exiftool has set the field in media_path (or in the file renamed since)
\* and its copy is in the file system.
C13_FieldSet(p) ==
  /\ p \in DOMAIN fs
  /\ fs[p].data = [src |-> disp.data.src, form |-> "xmp"]
  /\ <<"XMP:DateTimeOriginal", datetime_str>> \in fs[p].meta

\* C13 as stated: the copy exiftool left is in the backup directory before
\* the file is renamed to its marked name.
C13_MoveBeforeRename ==
  [][ C13_RenameStep => InBackup(Basename(ExiftoolCopy)) \in DOMAIN fs ]_vars

\* C13, with the order the handler has: (1) exiftool sets the field in
\* place and leaves its copy, (2) the file is renamed to its marked name,
\* (3) the copy is moved into the backup directory; and an exiftool that
\* exits with a non-zero status ends the run with the file system as it was.
C13_GifOrder ==
  [][ /\ (pc = "gif_exif" /\ ~C13_FieldSet(media_path)')
         => (pc' = "fatal" /\ err'.kind = "exiftool" /\ fs' = fs)
      /\ C13_RenameStep
         => /\ C13_FieldSet(media_path)
            /\ ExiftoolCopy \in DOMAIN fs
            /\ new_media_path \notin DOMAIN fs
            /\ fs' = Put(Del(fs, media_path), new_media_path, fs[media_path])
      /\ C13_MoveStep
         => /\ C13_FieldSet(new_media_path)
            /\ (new_media_path # media_path => media_path \notin DOMAIN fs)
            /\ fs' = Put(Del(fs, ExiftoolCopy), InBackup(Basename(ExiftoolCopy)),
                         fs[ExiftoolCopy])
      /\ (pc \in {"gif", "gif_exif", "gif_rename", "gif_move"} /\ fs' # fs)
         => (pc = "gif_exif" \/ C13_RenameStep \/ C13_MoveStep)
      /\ FatalIsFinal ]_vars

\* The three steps have been taken on clip.gif.
C13_Witness ==
  /\ real_run /\ run = "first" /\ pc \in {"loop", "done"}
  /\ media_path = InMedia(CLIP_GIF)
  /\ new_media_path = InMedia(CLIP_IMMICH_GIF)
  /\ C13_FieldSet(new_media_path)
  /\ media_path \notin DOMAIN fs
  /\ ExiftoolCopy \notin DOMAIN fs
  /\ InBackup(Basename(ExiftoolCopy)) \in DOMAIN fs
  /\ fs[InBackup(Basename(ExiftoolCopy))] = disp

\* The lines a step adds to the log.
NewLines == SubSeq(log', Len(log) + 1, Len(log'))

\* The run is about to dispatch, or to run the detection on, an entry that
\* needs nothing: a pass-through extension, a JPEG with DateTimeOriginal, a
\* PNG with 'Creation Time', an MP4/M4V whose streams all carry
\* creation_time, a GIF whose name is marked.
C14_NothingToDo ==
  LET ext == Lower(RsplitLast(media_name))
      path == InMedia(media_name)
      InFs == path \in DOMAIN fs
  IN  /\ pc \in {"loop", "jpg", "png", "gif", "mp4"}
      /\ i \in 1..Len(all_media_names)
      /\ \/ ext \in C4_PassThroughExtensions
         \/ ext \in JPG_SUFFIXES /\ InFs /\ HasKey(fs[path].meta, "DateTimeOriginal")
         \/ ext \in PNG_SUFFIXES /\ InFs /\ HasKey(fs[path].meta, "Creation Time")
         \/ ext \in MP4_SUFFIXES /\ InFs
              /\ \A key \in MP4_STREAM_TAGS : HasKey(fs[path].meta, key)
         \/ ext \in GIF_SUFFIXES
              /\ EndsWith(media_name, <<"_","i","m","m","i","c","h",".">> \o ext)

\* C14: in a real run the steps on an entry that needs nothing leave the
\* file system as it is, end with the next entry (or the end of the run),
\* and log at debug level only.
C14_SilentSkip ==
  [][ (real_run /\ C14_NothingToDo)
        => /\ fs' = fs /\ dirs' = dirs
           /\ pc' # "fatal"
           /\ pc' \in {"loop", "done"} \/ pc = "loop"
           /\ \A k \in 1..Len(NewLines) : NewLines[k].lvl = "DEBUG" ]_vars

\* The JPEG at media_path has been saved with the date of the run's choice.
C15_Saved(f) ==
  /\ media_path \in DOMAIN f
  /\ f[media_path].data = [src |-> disp.data.src, form |-> "resave"]
  /\ <<"DateTimeOriginal", datetime_str>> \in f[media_path].meta

\* C15: in process_jpg a file without a readable EXIF block is not an error:
\* it is handled as a file with an empty block (an info line, shown unless
\* the verbosity is ERROR, and the date is assigned).  The save that keeps the quality is the first write and
\* happens in a real run only; the run waits for the operator only after
\* that save was rejected and the error logged, with the file not saved; the
\* save with quality 95 follows the acknowledgement, once: after it the run
\* is at the next entry, at its end, or aborted.  A dry run neither saves
\* nor waits for the operator.
C15_JpgSaveProtocol ==
  [][ /\ (pc = "jpg" /\ media_path \in DOMAIN fs)
         => /\ pc' # "fatal" /\ fs' = fs
            /\ ~HasKey(fs[media_path].meta, "Exif")
                 => /\ IF verbosity = "ERROR" THEN NewLines = <<>>
                       ELSE /\ Len(NewLines) = 2
                            /\ NewLines[1].tag = "no_exif" /\ NewLines[1].lvl = "INFO"
                            /\ NewLines[2].tag = "assign_jpg"
                    /\ pc' \in (IF real_run THEN {"jpg_save"} ELSE {"loop", "done"})
      /\ (pc' = "jpg_save" /\ pc # "jpg_save")
         => (pc = "jpg" /\ real_run /\ fs' = fs /\ fs[media_path] = disp)
      /\ (pc' = "jpg_retry" /\ pc # "jpg_retry")
         => /\ pc = "jpg_save"
            /\ ~C15_Saved(fs')
            /\ Len(NewLines) = 1
            /\ NewLines[1].lvl = "ERROR" /\ NewLines[1].tag = "error"
      /\ pc = "jpg_save"
         => (pc' \in {"loop", "done"} <=> C15_Saved(fs'))
      /\ pc = "jpg_retry"
         => /\ pc' \in {"loop", "done", "fatal"}
            /\ pc' \in {"loop", "done"} <=> C15_Saved(fs')
            /\ pc' = "fatal" => fs' = fs
      /\ (run = "first" /\ ~real_run)
         => (pc' \notin {"jpg_save", "jpg_retry"} /\ fs' = fs) ]_vars

\* A JPEG without EXIF went through the rejected save, the acknowledgement
\* and the save with quality 95, and the run went on.
C15_Witness ==
  /\ real_run /\ pc \in {"loop", "done"}
  /\ Handler(sfx) = "jpg"
  /\ ~HasKey(disp.meta, "Exif")
  /\ C15_Saved(fs)
  /\ \E k \in 1..Len(log) :
       /\ log[k].tag = "error" /\ log[k].name = Basename(media_path)
       /\ k > 1 /\ log[k - 1].tag = "assign_jpg"

\* The names a run is to go through: the entries the target directory had
\* when the run started, without the backup directory.
C16_Snapshot == Listdir(fs0, dirs0, media_dir) \ {BACKUP_DIR_NAME}

\* The handler main calls for a name: by the text after the last dot,
\* lowercased.  (A name without a dot is compared as a whole.)
C16_Target(name) ==
  LET k == LastIndexOf(name, ".")
      ext == Lower(SubSeq(name, k + 1, Len(name)))
  IN  IF ext \in JPG_SUFFIXES THEN {"jpg"}
      ELSE IF ext \in PNG_SUFFIXES THEN {"png"}
      ELSE IF ext \in GIF_SUFFIXES THEN {"gif"}
      ELSE IF ext \in BMP_SUFFIXES THEN {"bmp"}
      ELSE IF ext \in MP4_SUFFIXES THEN {"mp4"}
      ELSE IF ext \in C4_PassThroughExtensions THEN {"loop", "done"}
      ELSE {"fatal"}

\* C16: the list main goes through is a snapshot taken at the start of the
\* run: the listing step fills it with each entry the directory had then,
\* except the backup directory, once, and no later step changes it; the
\* entries are dispatched one after the other in the order of the list,
\* each once, the next one only when the handler of the one before has
\* returned, and the run is done when the list is through; a file made
\* during the run is not in the list; and the handler is chosen by the text
\* after the last dot of the name, lowercased.
C16_SequentialSnapshot ==
  [][ /\ pc = "list"
         => /\ { all_media_names'[k] : k \in 1..Len(all_media_names') } = C16_Snapshot
            /\ Len(all_media_names') = Cardinality(C16_Snapshot)
            /\ i' = 1
            /\ fs' = fs /\ fs = fs0
      /\ (pc \notin {"start", "list"} /\ pc' # "start")
         => /\ all_media_names' = all_media_names
            /\ i' \in {i, i + 1}
            /\ i' = i + 1 <=> (pc # "fatal" /\ pc' \in {"loop", "done"})
      /\ pc' = "done" => i' = Len(all_media_names') + 1
      /\ pc' = "loop" => i' \in 1..Len(all_media_names')
      /\ pc = "loop"
         => /\ media_path' = InMedia(all_media_names[i])
            /\ pc' \in C16_Target(all_media_names[i])
            /\ fs' = fs
      /\ (pc' \in {"jpg", "gif", "bmp", "mp4"} /\ pc' # pc) => pc = "loop"
      /\ (pc' = "png" /\ pc # "png") => pc \in {"loop", "bmp_move"}
      /\ fs' # fs
         => \A p \in DOMAIN fs' \ (DOMAIN fs \cup DOMAIN fs0) :
              \A k \in 1..Len(all_media_names) : InMedia(all_media_names[k]) # p ]_vars

\* A real run converted photo.bmp, then handled w.M4V by its upper-case
\* extension, and ended without visiting the files it made.
C16_Witness ==
  /\ real_run /\ run = "first" /\ pc = "done"
  /\ all_media_names = << PHOTO_BMP, <<"w",".","M","4","V">> >>
  /\ InMedia(PHOTO_BMP_PNG) \in DOMAIN fs
  /\ InMedia(<<"w","_","i","m","m","i","c","h",".","M","4","V">>) \in DOMAIN fs
  /\ \E k \in 1..Len(log) : log[k].tag = "assign_mp4"

\* C17: a step of a real run changes the content of a file that existed
\* before the step, or puts another file in its place, only if that file is
\* the one being processed (for a BMP: the .bmp, and then the PNG made of
\* it, which process_png is given).
C17_NoOverwrite ==
  [][ (real_run /\ AtEntry)
        => \A p \in DOMAIN fs \cap DOMAIN fs' :
             fs'[p] # fs[p] => p = media_path ]_vars

\* The name a handler is to derive from a name: the text before the last
\* dot, then the marker and the extension.
C18_Expected(name, handler) ==
  LET k == LastIndexOf(name, ".")
      stem == SubSeq(name, 1, k - 1)
      ext == SubSeq(name, k + 1, Len(name))
  IN  IF handler = "bmp" THEN stem \o <<"_","b","m","p",".","p","n","g">>
      ELSE stem \o <<"_","i","m","m","i","c","h",".">> \o ext

\* The output path a logged decision names, if it names one.
C18_Derived(line) ==
  IF line.tag = "convert_bmp" THEN {line.b}
  ELSE IF line.tag \in {"assign_gif", "assign_mp4"} THEN {line.a}
  ELSE {}

\* C18: every path a BMP, GIF or MP4/M4V handler derived for its output
\* (the path it logs and, in a real run, writes to) is in the target
\* directory, is not the path of the source, and has the name of the source
\* with only the final extension part changed.
C18_DerivedPath ==
  /\ \A k \in 1..Len(log) :
       \A path \in C18_Derived(log[k]) :
         /\ Dirname(path) = media_dir
         /\ path # InMedia(log[k].name)
         /\ LastIndexOf(log[k].name, ".") > 0
         /\ Basename(path) = C18_Expected(log[k].name, Handler(RsplitLast(log[k].name)))
  /\ pc \in {"bmp_save", "gif_exif", "mp4_run"}
       => /\ Dirname(new_media_path) = media_dir
          /\ new_media_path # InMedia(media_name)
          /\ LastIndexOf(media_name, ".") > 0
          /\ Basename(new_media_path) = C18_Expected(media_name, Handler(sfx))

====
